---- MODULE Spec2Model ----
(***************************************************************************)
(* Smart-Index: a chained hash table (CustomeDictionary.py) and the        *)
(* TF-IDF inverted index and query resolver built on it                    *)
(* (Indexing_App.py, indexing.py).                                         *)
(*                                                                         *)
(* Python strings are modelled as sequences of one-character strings, so   *)
(* that hashing, lower() and substring tests are computed and not assumed. *)
(***************************************************************************)
EXTENDS Integers, Sequences, FiniteSets, TLC

VARIABLES
    dict,       \* the container under test (CustomDictionary / CustomDefaultDict)
    ref,        \* reference map driven by the same operations
    probed,     \* a get(key, default) / `in` miss has run on a dict with a factory
    last,       \* the last container operation: arguments, pre-state, outcome
    variant,    \* which program runs: "app" (Indexing_App.py) or "cli" (indexing.py)
    documents,  \* SearchEngine.documents
    index,      \* SearchEngine.index
    elast       \* the last SearchEngine operation: arguments, index before, outcome

dvars == <<dict, ref, probed, last>>
dvars_but_last == <<dict, ref, probed>>
evars == <<variant, documents, index, elast>>
vars == <<dict, ref, probed, last, variant, documents, index, elast>>

----------------------------------------------------------------------------
(* Characters and strings *)

LowerCase == <<"a","b","c","d","e","f","g","h","i","j","k","l","m",
               "n","o","p","q","r","s","t","u","v","w","x","y","z">>
UpperCase == <<"A","B","C","D","E","F","G","H","I","J","K","L","M",
               "N","O","P","Q","R","S","T","U","V","W","X","Y","Z">>
Digits == <<"0","1","2","3","4","5","6","7","8","9">>

Range(s) == {s[i] : i \in 1..Len(s)}
PosIn(s, c) == CHOOSE i \in 1..Len(s) : s[i] = c

\* Python's ord() on the characters the inputs use.
Characters == Range(LowerCase) \cup Range(UpperCase) \cup Range(Digits) \cup {" ", "."}
CodePoint ==
    [c \in Characters |->
        IF c \in Range(LowerCase) THEN 96 + PosIn(LowerCase, c)
        ELSE IF c \in Range(UpperCase) THEN 64 + PosIn(UpperCase, c)
        ELSE IF c \in Range(Digits) THEN 47 + PosIn(Digits, c)
        ELSE IF c = " " THEN 32
        ELSE 46]
ord(c) == CodePoint[c]

\* str.lower()
LowerOf ==
    [c \in Characters |->
        IF c \in Range(UpperCase) THEN LowerCase[PosIn(UpperCase, c)] ELSE c]
lower(s) == [i \in 1..Len(s) |-> LowerOf[s[i]]]

\* a in b, for strings
IsSubstring(a, b) ==
    \E i \in 0..(Len(b) - Len(a)) : SubSeq(b, i + 1, i + Len(a)) = a

----------------------------------------------------------------------------
(* CustomDictionary *)

\* load_factor_threshold = 0.75 = LoadFactorNum / LoadFactorDen
LoadFactorNum == 3
LoadFactorDen == 4
\* p = 31 in _hash
HashPrime == 31
\* capacity *= 2 in _resize
GrowthFactor == 2

\* The bucket list [[] for _ in range(capacity)] is kept as a function from
\* the indices of the non-empty buckets to their entries; every other index
\* below capacity holds the empty list.
EmptyBuckets(capacity) == [bucket_index \in {} |-> <<>>]

\* self.buckets[bucket_index]
Bucket(d, bucket_index) ==
    IF bucket_index \in DOMAIN d.buckets THEN d.buckets[bucket_index] ELSE <<>>

\* self.buckets with the bucket at bucket_index replaced
WithBucket(d, bucket_index, bucket) ==
    IF bucket = <<>>
    THEN [i \in DOMAIN d.buckets \ {bucket_index} |-> d.buckets[i]]
    ELSE (bucket_index :> bucket) @@ d.buckets

CustomDictionary(initial_capacity) ==
    [cls |-> "CustomDictionary",
     capacity |-> initial_capacity,
     size |-> 0,
     buckets |-> EmptyBuckets(initial_capacity),
     default_factory |-> "None"]

CustomDefaultDict(default_factory, initial_capacity) ==
    [CustomDictionary(initial_capacity) EXCEPT
        !.cls = "CustomDefaultDict",
        !.default_factory = default_factory]

\* The value a factory call produces: int() = 0, list() = [].
CallFactory(default_factory) == IF default_factory = "int" THEN 0 ELSE <<>>

RECURSIVE HashFrom(_, _, _, _)
HashFrom(key, i, hash_value, m) ==
    IF i > Len(key) THEN hash_value
    ELSE HashFrom(key, i + 1, (hash_value * HashPrime + ord(key[i])) % m, m)

\* Keys are strings: the polynomial rolling hash branch.
_hash(key, capacity) == HashFrom(key, 1, 0, capacity)

\* Position of key in a bucket (first match of the enumerate loop), 0 if absent.
FindKey(bucket, key) ==
    IF \E i \in 1..Len(bucket) : bucket[i][1] = key
    THEN CHOOSE i \in 1..Len(bucket) :
            /\ bucket[i][1] = key
            /\ \A j \in 1..(i - 1) : bucket[j][1] # key
    ELSE 0

RemoveAt(s, i) == SubSeq(s, 1, i - 1) \o SubSeq(s, i + 1, Len(s))

\* items(): buckets in index order, entries in bucket order.
First(S) == CHOOSE i \in S : \A j \in S : i <= j

RECURSIVE ItemsOf(_, _)
ItemsFrom(buckets, S, lo) == buckets[lo] \o ItemsOf(buckets, S \ {lo})
ItemsOf(buckets, S) == IF S = {} THEN <<>> ELSE ItemsFrom(buckets, S, First(S))

items(d) == ItemsOf(d.buckets, DOMAIN d.buckets)
Column(pairs, n) == [i \in 1..Len(pairs) |-> pairs[i][n]]
keys(d) == Column(items(d), 1)
values(d) == Column(items(d), 2)
len(d) == d.size

RECURSIVE __setitem__(_, _, _)
RECURSIVE Rehash(_, _, _)

\* The loop of _resize: self[key] = value for every old entry, in order.
Rehash(d, old_items, i) ==
    IF i > Len(old_items) THEN d
    ELSE Rehash(__setitem__(d, old_items[i][1], old_items[i][2]), old_items, i + 1)

\* Mutant: the bucket array is extended in place, entries are not rehashed.
_resize_no_rehash(d) ==
    [d EXCEPT !.capacity = d.capacity * GrowthFactor]

\* Mutant: size is not reset before the entries are reinserted.
_resize_keep_size(d) ==
    Rehash([d EXCEPT !.capacity = d.capacity * GrowthFactor,
                     !.buckets = EmptyBuckets(d.capacity * GrowthFactor)],
           items(d), 1)

\* Mutant: the entries are reinserted next to the old ones, the bucket
\* array is not replaced by a new one.
_resize_keep_buckets(d) ==
    Rehash([d EXCEPT !.capacity = d.capacity * GrowthFactor, !.size = 0],
           items(d), 1)

_resize(d) ==
    Rehash([d EXCEPT !.capacity = d.capacity * GrowthFactor,
                     !.buckets = EmptyBuckets(d.capacity * GrowthFactor),
                     !.size = 0],
           items(d), 1)

\* Mutant: insertion never checks the load factor.
CheckLoadFactor_never(d) == d

\* if self.size / self.capacity >= self.load_factor_threshold: self._resize()
CheckLoadFactor(d) ==
    IF d.size * LoadFactorDen >= LoadFactorNum * d.capacity THEN _resize(d) ELSE d

\* Mutant: overwriting removes the old entry and appends the new one.
PutEntry_move_to_end(d, key, value, bucket_index, i) ==
    IF i # 0
    THEN [d EXCEPT !.buckets =
            WithBucket(d, bucket_index,
                       Append(RemoveAt(Bucket(d, bucket_index), i), <<key, value>>))]
    ELSE CheckLoadFactor(
            [d EXCEPT !.buckets = WithBucket(d, bucket_index,
                                             Append(Bucket(d, bucket_index), <<key, value>>)),
                      !.size = d.size + 1])

\* Mutant: a set appends a new entry whether the key is stored or not.
PutEntry_always_append(d, key, value, bucket_index, i) ==
    CheckLoadFactor(
        [d EXCEPT !.buckets = WithBucket(d, bucket_index,
                                         Append(Bucket(d, bucket_index), <<key, value>>)),
                  !.size = d.size + 1])

\* __setitem__ once the bucket is scanned: i is the position of key, 0 if absent.
PutEntry(d, key, value, bucket_index, i) ==
    IF i # 0
    THEN [d EXCEPT !.buckets[bucket_index][i] = <<key, value>>]
    ELSE CheckLoadFactor(
            [d EXCEPT !.buckets = WithBucket(d, bucket_index,
                                             Append(Bucket(d, bucket_index), <<key, value>>)),
                      !.size = d.size + 1])

PutInBucket(d, key, value, bucket_index) ==
    PutEntry(d, key, value, bucket_index, FindKey(Bucket(d, bucket_index), key))

__setitem__(d, key, value) == PutInBucket(d, key, value, _hash(key, d.capacity))

\* Outcome of a lookup: the dict afterwards, whether KeyError was raised,
\* the value returned, and how many times the factory was called.
Outcome(d, raised, value, calls) ==
    [d |-> d, raised |-> raised, value |-> value, calls |-> calls]

NoValue == 0 - 1

\* __getitem__ once the bucket is scanned.
EntryValue(d, bucket, i) ==
    IF i # 0 THEN Outcome(d, FALSE, bucket[i][2], 0) ELSE Outcome(d, TRUE, NoValue, 0)

ScanBucket(d, bucket, key) == EntryValue(d, bucket, FindKey(bucket, key))

\* CustomDictionary.__getitem__
__getitem__(d, key) == ScanBucket(d, Bucket(d, _hash(key, d.capacity)), key)

\* Mutant: the factory value is returned but not stored.
OnKeyError_no_store(d, key, r) ==
    IF ~r.raised THEN r
    ELSE IF d.default_factory = "None" THEN Outcome(d, TRUE, NoValue, 0)
    ELSE Outcome(d, FALSE, CallFactory(d.default_factory), 1)

\* The except branch of CustomDefaultDict.__getitem__, r being the outcome of
\* super().__getitem__(key): self[key] = self.default_factory(); return self[key]
OnKeyError(d, key, r) ==
    IF ~r.raised THEN r
    ELSE IF d.default_factory = "None" THEN Outcome(d, TRUE, NoValue, 0)
    ELSE [__getitem__(__setitem__(d, key, CallFactory(d.default_factory)), key)
             EXCEPT !.calls = 1]

\* CustomDefaultDict.__getitem__
CustomDefaultDict__getitem__(d, key) == OnKeyError(d, key, __getitem__(d, key))

\* self[key]: dispatch on the class of the receiver.
Subscript(d, key) ==
    IF d.cls = "CustomDefaultDict"
    THEN CustomDefaultDict__getitem__(d, key)
    ELSE __getitem__(d, key)

\* Mutant: the entry is removed but size is not decremented.
RemoveEntry_keep_size(d, bucket_index, i) ==
    IF i # 0
    THEN Outcome([d EXCEPT !.buckets = WithBucket(d, bucket_index,
                                                  RemoveAt(Bucket(d, bucket_index), i))],
                 FALSE, NoValue, 0)
    ELSE Outcome(d, TRUE, NoValue, 0)

\* __delitem__ once the bucket is scanned.
RemoveEntry(d, bucket_index, i) ==
    IF i # 0
    THEN Outcome([d EXCEPT !.buckets = WithBucket(d, bucket_index,
                                                  RemoveAt(Bucket(d, bucket_index), i)),
                           !.size = d.size - 1],
                 FALSE, NoValue, 0)
    ELSE Outcome(d, TRUE, NoValue, 0)

RemoveFromBucket(d, key, bucket_index) ==
    RemoveEntry(d, bucket_index, FindKey(Bucket(d, bucket_index), key))

__delitem__(d, key) == RemoveFromBucket(d, key, _hash(key, d.capacity))

\* The try / except of get, r being the outcome of self[key].
OrDefault(r, default) == IF r.raised THEN Outcome(r.d, FALSE, default, r.calls) ELSE r

\* get(key, default): try self[key], except KeyError return default.
get(d, key, default) == OrDefault(Subscript(d, key), default)

\* The try / except of __contains__, r being the outcome of self[key].
Found(r) == Outcome(r.d, FALSE, ~r.raised, r.calls)

\* __contains__: try self[key], True; except KeyError, False.
__contains__(d, key) == Found(Subscript(d, key))

\* Mutant: clear leaves the dictionary as it is.
clear_nothing(d) == d

\* Mutant: clear resets the size and keeps the buckets.
clear_keep_buckets(d) == [d EXCEPT !.size = 0]

\* Mutant: clear also forgets the default factory.
clear_drops_factory(d) ==
    [d EXCEPT !.buckets = EmptyBuckets(d.capacity), !.size = 0, !.default_factory = "None"]

clear(d) == [d EXCEPT !.buckets = EmptyBuckets(d.capacity), !.size = 0]

----------------------------------------------------------------------------
(* The container driven by arbitrary operations, next to a reference map *)

NumKeys == 3
MaxInitialCapacity == 3

KeyPool == << <<"a">>, <<"a","b">>, <<"c">>, <<"b">>, <<"b","a">> >>
Keys == {KeyPool[i] : i \in 1..NumKeys}
\* Values are opaque to the container: two distinct ones show an overwrite.
Values == {1, 2}
InitialCapacities == 1..MaxInitialCapacity
Default == 0 - 7

RefSet(r, key, value) ==
    [k \in DOMAIN r \cup {key} |-> IF k = key THEN value ELSE r[k]]
RefDel(r, key) == [k \in DOMAIN r \ {key} |-> r[k]]
EmptyRef == [k \in {} |-> 0]

Op(op, key, value, pre, r) ==
    [op |-> op, key |-> key, value |-> value, pre |-> pre,
     raised |-> r.raised, result |-> r.value, calls |-> r.calls]

DictInit ==
    /\ \E c \in InitialCapacities :
          dict \in {CustomDictionary(c),
                    CustomDefaultDict("int", c),
                    CustomDefaultDict("None", c)}
    /\ ref = EmptyRef
    /\ probed = FALSE
    /\ last = [op |-> "init", key |-> <<>>, value |-> NoValue, pre |-> dict,
               raised |-> FALSE, result |-> NoValue, calls |-> 0]
    /\ variant = "none" /\ documents = <<>> /\ index = <<>> /\ elast = <<>>

\* d[key] = value
Set ==
    \E key \in Keys, value \in Values :
        /\ dict' = __setitem__(dict, key, value)
        /\ ref' = RefSet(ref, key, value)
        /\ last' = Op("set", key, value, dict, Outcome(dict', FALSE, NoValue, 0))
        /\ UNCHANGED <<probed, evars>>

\* d[key]
GetItem ==
    \E key \in Keys :
        \E r \in {Subscript(dict, key)} :
           /\ dict' = r.d
           /\ ref' = IF r.calls > 0 THEN RefSet(ref, key, r.value) ELSE ref
           /\ last' = Op("getitem", key, NoValue, dict, r)
           /\ UNCHANGED <<probed, evars>>

\* del d[key]
DelItem ==
    \E key \in Keys :
        \E r \in {__delitem__(dict, key)} :
           /\ dict' = r.d
           /\ ref' = IF r.raised THEN ref ELSE RefDel(ref, key)
           /\ last' = Op("delitem", key, NoValue, dict, r)
           /\ UNCHANGED <<probed, evars>>

\* d.get(key, default)
Get ==
    \E key \in Keys :
        \E r \in {get(dict, key, Default)} :
           /\ dict' = r.d
           /\ last' = Op("get", key, Default, dict, r)
           /\ probed' = (probed \/ r.calls > 0)
           /\ UNCHANGED <<ref, evars>>

\* key in d
Contains ==
    \E key \in Keys :
        \E r \in {__contains__(dict, key)} :
           /\ dict' = r.d
           /\ last' = Op("contains", key, NoValue, dict, r)
           /\ probed' = (probed \/ r.calls > 0)
           /\ UNCHANGED <<ref, evars>>

\* d.clear()
Clear ==
    /\ dict' = clear(dict)
    /\ ref' = EmptyRef
    /\ last' = Op("clear", <<>>, NoValue, dict, Outcome(dict', FALSE, NoValue, 0))
    /\ UNCHANGED <<probed, evars>>

DictNext == Set \/ GetItem \/ DelItem \/ Get \/ Contains \/ Clear

SpecDict == DictInit /\ [][DictNext]_vars

----------------------------------------------------------------------------
(* The NLP collaborator (nltk): tokenizer, tagger, lemmatizer, WordNet *)

W_the == <<"t","h","e">>
W_cat == <<"c","a","t">>
W_cats == <<"c","a","t","s">>
W_sat == <<"s","a","t">>
W_on == <<"o","n">>
W_mat == <<"m","a","t">>
W_dog == <<"d","o","g">>
W_rug == <<"r","u","g">>
W_feline == <<"f","e","l","i","n","e">>
W_canine == <<"c","a","n","i","n","e">>

\* word_tokenize on text without punctuation: the maximal runs of non-blanks.
RECURSIVE TokenizeFrom(_, _, _, _)
TokenizeFrom(text, i, word, out) ==
    LET flushed == IF word = <<>> THEN out ELSE Append(out, word)
    IN IF i > Len(text) THEN flushed
       ELSE IF text[i] = " " THEN TokenizeFrom(text, i + 1, <<>>, flushed)
       ELSE TokenizeFrom(text, i + 1, Append(word, text[i]), out)

word_tokenize(text) == TokenizeFrom(text, 1, <<>>, <<>>)

\* pos_tag: the tag of each token (a fixed lexicon; unknown words are tagged NN).
TagOf(token) ==
    IF token = W_the THEN "DT"
    ELSE IF token = W_sat THEN "VBD"
    ELSE IF token = W_on THEN "IN"
    ELSE IF token = W_cats THEN "NNS"
    ELSE "NN"

pos_tag(words) == [i \in 1..Len(words) |-> <<words[i], TagOf(words[i])>>]

NounTags == {"NN", "NNS", "NNP", "NNPS"}

\* [word for word, pos in pos_tags if pos in (...)]
RECURSIVE SelectWords(_, _, _)
SelectWords(pos_tags, tags, i) ==
    IF i > Len(pos_tags) THEN <<>>
    ELSE (IF pos_tags[i][2] \in tags THEN <<pos_tags[i][1]>> ELSE <<>>)
            \o SelectWords(pos_tags, tags, i + 1)

\* WordNetLemmatizer().lemmatize
lemmatize(noun) == IF noun = W_cats THEN W_cat ELSE noun

\* wordnet lemma names of the synsets of a word
get_synonyms(word) ==
    IF word = W_feline THEN {W_feline, W_cat}
    ELSE IF word = W_canine THEN {W_canine, W_dog}
    ELSE IF word \in {W_cat, W_dog, W_mat, W_rug} THEN {word}
    ELSE {}

\* An iteration order for a Python set (fixed within a run): by length, then
\* by the code points of the characters.
RECURSIVE StrLess(_, _, _)
StrLess(a, b, i) ==
    IF i > Len(a) THEN FALSE
    ELSE IF ord(a[i]) # ord(b[i]) THEN ord(a[i]) < ord(b[i])
    ELSE StrLess(a, b, i + 1)
Before(a, b) == Len(a) < Len(b) \/ (Len(a) = Len(b) /\ StrLess(a, b, 1))
RECURSIVE SetToSeq(_)
SetToSeq(S) ==
    IF S = {} THEN <<>>
    ELSE LET x == CHOOSE y \in S : \A z \in S \ {y} : Before(y, z)
         IN <<x>> \o SetToSeq(S \ {x})

\* expand_query_with_synonyms: list(set(query_tokens) | synonyms)
\* The iteration order of a set of strings depends on the hash seed of the
\* interpreter: the order above, or the opposite one.
HashSeeds == {"ascending", "descending"}
Reverse(s) == [i \in 1..Len(s) |-> s[Len(s) + 1 - i]]
ListOfSet(S, hash_seed) ==
    IF hash_seed = "ascending" THEN SetToSeq(S) ELSE Reverse(SetToSeq(S))

expand_query_with_synonyms(query_tokens, hash_seed) ==
    ListOfSet(Range(query_tokens) \cup UNION {get_synonyms(w) : w \in Range(query_tokens)},
              hash_seed)

extract_nouns_and_entities(content) ==
    LET words == word_tokenize(lower(content))
        nouns == SelectWords(pos_tag(words), NounTags, 1)
    IN [i \in 1..Len(nouns) |-> lemmatize(nouns[i])]

\* A match that looks at the last window of the content only when an
\* earlier one exists: range(len(content_words) - len(query_words)).
phrase_match_short_range(content, query) ==
    LET content_words == word_tokenize(lower(content))
        query_words == word_tokenize(lower(query))
    IN \E i \in 0..(Len(content_words) - Len(query_words) - 1) :
          SubSeq(content_words, i + 1, i + Len(query_words)) = query_words

\* phrase_match: a window of the content tokens equals the query tokens.
phrase_match(content, query) ==
    LET content_words == word_tokenize(lower(content))
        query_words == word_tokenize(lower(query))
    IN \E i \in 0..(Len(content_words) - Len(query_words)) :
          SubSeq(content_words, i + 1, i + Len(query_words)) = query_words

----------------------------------------------------------------------------
(* Term weights.  Floats are kept exact: a term frequency is the fraction   *)
(* <<count, total>>, math.log(n / m) is LnMicro[n] - LnMicro[m] millionths, *)
(* and a score is the fraction <<count * idf, total>> in millionths.        *)

\* 10^6 * ln(n), rounded
LnMicro == <<0, 693147, 1098612, 1386294, 1609438, 1791759, 1945910, 2079442>>

\* Mutant: the document count is not smoothed by 1.
LogRatio_unsmoothed(total_docs, doc_count) == LnMicro[total_docs] - LnMicro[doc_count]

\* math.log(total_docs / (1 + doc_count)), in millionths
LogRatio(total_docs, doc_count) == LnMicro[total_docs] - LnMicro[1 + doc_count]

\* The significance threshold, in millionths: 0.01 and 0.1
AppThresholdMicro == 10000
CliThresholdMicro == 100000

\* Mutant: the threshold is not positive, a score of 0 passes (score >= 0).
Exceeds_zero_passes(score, threshold_micro) == score[1] >= 0

\* score > threshold
Exceeds(score, threshold_micro) == score[1] > threshold_micro * score[2]

\* Counter(doc_words).items(): distinct words in order of first occurrence.
RECURSIVE Distinct(_, _, _)
Distinct(words, i, out) ==
    IF i > Len(words) THEN out
    ELSE Distinct(words, i + 1,
                  IF words[i] \in Range(out) THEN out ELSE Append(out, words[i]))
\* A counter that counts every word once.
Count_once(words, w) == 1
Count(words, w) == Cardinality({i \in 1..Len(words) : words[i] = w})
Counter(words) ==
    LET ws == Distinct(words, 1, <<>>)
    IN [i \in 1..Len(ws) |-> <<ws[i], Count(words, ws[i])>>]

\* initial_capacity=1024
DefaultCapacity == 1024

----------------------------------------------------------------------------
(* Indexing_App.py: the engine on CustomDictionary *)

\* Python finishes a statement before the next one starts: value is computed
\* first, and Continue then runs on it.
Then(value, Continue(_)) == CHOOSE result \in {Continue(v) : v \in {value}} : TRUE

RECURSIVE App_tf_loop(_, _, _, _)
App_tf_loop(tf, word_counts, total_words, i) ==
    IF i > Len(word_counts) THEN tf
    ELSE Then(__setitem__(tf, word_counts[i][1], <<word_counts[i][2], total_words>>),
              LAMBDA tf1 : App_tf_loop(tf1, word_counts, total_words, i + 1))

App_calculate_tf(doc_words) ==
    App_tf_loop(CustomDictionary(DefaultCapacity), Counter(doc_words), Len(doc_words), 1)

\* word_doc_counts[word] += 1 for every word of set(doc_words)
RECURSIVE App_count_words(_, _, _)
App_count_words(word_doc_counts, unique_words, i) ==
    IF i > Len(unique_words) THEN word_doc_counts
    ELSE Then(Subscript(word_doc_counts, unique_words[i]),
              LAMBDA r : Then(__setitem__(r.d, unique_words[i], r.value + 1),
                              LAMBDA d1 : App_count_words(d1, unique_words, i + 1)))

RECURSIVE App_count_docs(_, _, _)
App_count_docs(word_doc_counts, docs, i) ==
    IF i > Len(docs) THEN word_doc_counts
    ELSE Then(App_count_words(word_doc_counts, SetToSeq(Range(docs[i])), 1),
              LAMBDA d1 : App_count_docs(d1, docs, i + 1))

RECURSIVE App_idf_loop(_, _, _, _)
App_idf_loop(idf, counts, total_docs, i) ==
    IF i > Len(counts) THEN idf
    ELSE Then(__setitem__(idf, counts[i][1], LogRatio(total_docs, counts[i][2])),
              LAMBDA idf1 : App_idf_loop(idf1, counts, total_docs, i + 1))

App_calculate_idf(docs) ==
    Then(App_count_docs(CustomDefaultDict("int", DefaultCapacity), docs, 1),
         LAMBDA word_doc_counts :
            Then(items(word_doc_counts),
                 LAMBDA counts :
                    App_idf_loop(CustomDictionary(DefaultCapacity), counts, Len(docs), 1)))

\* tfidf[word] = tf[word] * idf[word]
App_product(tfidf, word, tf_word, idf_word) ==
    __setitem__(tfidf, word, <<tf_word[1] * idf_word, tf_word[2]>>)

RECURSIVE App_tfidf_loop(_, _, _, _, _)
App_tfidf_loop(tfidf, doc_words, tf, idf, i) ==
    IF i > Len(doc_words) THEN tfidf
    ELSE Then(IF __contains__(idf, doc_words[i]).value
              THEN App_product(tfidf, doc_words[i],
                               Subscript(tf, doc_words[i]).value,
                               Subscript(idf, doc_words[i]).value)
              ELSE tfidf,
              LAMBDA tfidf1 : App_tfidf_loop(tfidf1, doc_words, tf, idf, i + 1))

App_calculate_tfidf(doc_words, tf, idf) ==
    App_tfidf_loop(CustomDictionary(DefaultCapacity), doc_words, tf, idf, 1)

\* {term for term, score in tfidf.items() if score > threshold}
ImportantTerms(scores, threshold_micro) ==
    {scores[i][1] : i \in {j \in 1..Len(scores) : Exceeds(scores[j][2], threshold_micro)}}

\* self.index[term].append(doc_id): the list stored under term grows in place;
\* r is the outcome of self.index[term].
AppendAt(d, doc_id, bucket_index, i) ==
    [d EXCEPT !.buckets[bucket_index][i][2] = Append(@, doc_id)]

AppendIn(d, term, doc_id, bucket_index) ==
    AppendAt(d, doc_id, bucket_index, FindKey(Bucket(d, bucket_index), term))

AppendTo(r, term, doc_id) == AppendIn(r.d, term, doc_id, _hash(term, r.d.capacity))

App_append(ix, term, doc_id) ==
    Then(Subscript(ix, term), LAMBDA r : AppendTo(r, term, doc_id))

RECURSIVE App_post_terms(_, _, _, _)
App_post_terms(ix, terms, doc_id, i) ==
    IF i > Len(terms) THEN ix
    ELSE Then(App_append(ix, terms[i], doc_id),
              LAMBDA ix1 : App_post_terms(ix1, terms, doc_id, i + 1))

\* The body of the second loop of update_index, for one document.
App_index_doc(ix, doc_id, doc_words, idf) ==
    Then(App_calculate_tf(doc_words),
         LAMBDA tf :
            Then(items(App_calculate_tfidf(doc_words, tf, idf)),
                 LAMBDA scores :
                    App_post_terms(
                        ix, SetToSeq(ImportantTerms(scores, AppThresholdMicro)), doc_id, 1)))

RECURSIVE App_index_docs(_, _, _, _)
App_index_docs(ix, docs, idf, i) ==
    IF i > Len(docs) THEN ix
    ELSE Then(extract_nouns_and_entities(docs[i][2]),
              LAMBDA doc_words :
                 Then(App_index_doc(ix, docs[i][1], doc_words, idf),
                      LAMBDA ix1 : App_index_docs(ix1, docs, idf, i + 1)))

\* extract_nouns_and_entities(content) for every document, in store order
DocWordList(docs) == [i \in 1..Len(docs) |-> extract_nouns_and_entities(docs[i][2])]

\* SearchEngine.update_index: the index afterwards.
App_update_index(docs_dict, ix) ==
    Then(items(docs_dict),
         LAMBDA docs :
            Then(App_calculate_idf(DocWordList(docs)),
                 LAMBDA idf : App_index_docs(clear(ix), docs, idf, 1)))

\* SearchEngine.add_document
App_add_document(docs_dict, title, content) == __setitem__(docs_dict, title, content)

\* A title search that compares without lower-casing.
RECURSIVE TitleMatches_case_sensitive(_, _, _)
TitleMatches_case_sensitive(titles, query, i) ==
    IF i > Len(titles) THEN <<>>
    ELSE (IF IsSubstring(query, titles[i]) THEN <<titles[i]>> ELSE <<>>)
            \o TitleMatches_case_sensitive(titles, query, i + 1)

\* SearchEngine.search_by_title
RECURSIVE TitleMatches(_, _, _)
TitleMatches(titles, query, i) ==
    IF i > Len(titles) THEN <<>>
    ELSE (IF IsSubstring(lower(query), lower(titles[i])) THEN <<titles[i]>> ELSE <<>>)
            \o TitleMatches(titles, query, i + 1)

App_search_by_title(docs_dict, query) == TitleMatches(keys(docs_dict), query, 1)

PhraseMatches(docs, query) ==
    {docs[i][1] : i \in {j \in 1..Len(docs) : phrase_match(docs[j][2], query)}}

\* docs |= set(self.index.get(token, [])) for every token, in order:
\* the index as the lookups leave it, and the union of the postings read.
RECURSIVE App_union_postings(_, _, _, _)
App_union_postings(ix, tokens, i, found) ==
    IF i > Len(tokens) THEN [ix |-> ix, docs |-> found]
    ELSE Then(get(ix, tokens[i], <<>>),
              LAMBDA r : App_union_postings(r.d, tokens, i + 1, found \cup Range(r.value)))

\* One noun of the query: the noun itself, then each of its expanded tokens.
App_group_postings(ix, noun, expanded) ==
    App_union_postings(ix, <<noun>> \o expanded, 1, {})

RECURSIVE App_intersect_groups(_, _, _, _, _)
App_intersect_groups(ix, nouns, i, found, hash_seed) ==
    IF i > Len(nouns) THEN [ix |-> ix, docs |-> found]
    ELSE Then(App_group_postings(ix, nouns[i],
                                 expand_query_with_synonyms(<<nouns[i]>>, hash_seed)),
              LAMBDA g : App_intersect_groups(g.ix, nouns, i + 1, found \cap g.docs,
                                              hash_seed))

\* The semantic search of search_by_content; nouns are the keys of the dict
\* expanded_noun_tokens, in insertion order.
App_noun_search(ix, nouns, hash_seed) ==
    IF nouns = <<>> THEN [ix |-> ix, docs |-> {}]
    ELSE Then(App_group_postings(ix, nouns[1],
                                 expand_query_with_synonyms(<<nouns[1]>>, hash_seed)),
              LAMBDA first : App_intersect_groups(first.ix, nouns, 2, first.docs, hash_seed))

QueryNouns(query) ==
    Distinct(SelectWords(pos_tag(word_tokenize(lower(query))), NounTags, 1), 1, <<>>)

\* What a content search did: the index afterwards, the documents returned,
\* the return statement taken ("phrase", "index" or "substring") and the
\* value of noun_matching_docs when the semantic search ran.
Searched(ix, docs, phase, candidates) ==
    [ix |-> ix, docs |-> docs, phase |-> phase, candidates |-> candidates]

App_return_nouns(r) == Searched(r.ix, r.docs, "index", r.docs)

\* A search that runs the semantic search whatever the phrase matching found.
App_search_by_content_nonterminal(docs_dict, ix, query, hash_seed) ==
    App_return_nouns(App_noun_search(ix, QueryNouns(query), hash_seed))

\* SearchEngine.search_by_content
App_search_by_content(docs_dict, ix, query, hash_seed) ==
    Then(PhraseMatches(items(docs_dict), query),
         LAMBDA matching_docs :
            IF matching_docs # {} THEN Searched(ix, matching_docs, "phrase", {})
            ELSE App_return_nouns(App_noun_search(ix, QueryNouns(query), hash_seed)))

----------------------------------------------------------------------------
(* indexing.py: the engine on Python's dict and defaultdict.  A dict is the *)
(* sequence of its (key, value) pairs in insertion order.                   *)

PyFind(d, key) ==
    IF \E i \in 1..Len(d) : d[i][1] = key
    THEN CHOOSE i \in 1..Len(d) : d[i][1] = key
    ELSE 0
PyHas(d, key) == PyFind(d, key) # 0
\* d[key] = value
PySet(d, key, value) ==
    IF PyHas(d, key) THEN [d EXCEPT ![PyFind(d, key)] = <<key, value>>]
    ELSE Append(d, <<key, value>>)
\* d.get(key, default)
PyGet(d, key, default) == IF PyHas(d, key) THEN d[PyFind(d, key)][2] ELSE default
PyKeys(d) == [i \in 1..Len(d) |-> d[i][1]]

RECURSIVE Cli_tf_loop(_, _, _, _)
Cli_tf_loop(tf, word_counts, total_words, i) ==
    IF i > Len(word_counts) THEN tf
    ELSE Cli_tf_loop(PySet(tf, word_counts[i][1], <<word_counts[i][2], total_words>>),
                     word_counts, total_words, i + 1)

Cli_calculate_tf(doc_words) == Cli_tf_loop(<<>>, Counter(doc_words), Len(doc_words), 1)

\* word_doc_counts[word] += 1 on a defaultdict(int)
RECURSIVE Cli_count_words(_, _, _)
Cli_count_words(word_doc_counts, unique_words, i) ==
    IF i > Len(unique_words) THEN word_doc_counts
    ELSE Then(IF PyHas(word_doc_counts, unique_words[i]) THEN word_doc_counts
              ELSE PySet(word_doc_counts, unique_words[i], CallFactory("int")),
              LAMBDA d1 :
                 Cli_count_words(
                    PySet(d1, unique_words[i], PyGet(d1, unique_words[i], 0) + 1),
                    unique_words, i + 1))

RECURSIVE Cli_count_docs(_, _, _)
Cli_count_docs(word_doc_counts, docs, i) ==
    IF i > Len(docs) THEN word_doc_counts
    ELSE Then(Cli_count_words(word_doc_counts, SetToSeq(Range(docs[i])), 1),
              LAMBDA d1 : Cli_count_docs(d1, docs, i + 1))

Cli_calculate_idf(docs) ==
    Then(Cli_count_docs(<<>>, docs, 1),
         LAMBDA word_doc_counts :
            [i \in 1..Len(word_doc_counts) |->
                <<word_doc_counts[i][1], LogRatio(Len(docs), word_doc_counts[i][2])>>])

RECURSIVE Cli_tfidf_loop(_, _, _, _, _)
Cli_tfidf_loop(tfidf, doc_words, tf, idf, i) ==
    IF i > Len(doc_words) THEN tfidf
    ELSE Then(IF PyHas(idf, doc_words[i])
              THEN PySet(tfidf, doc_words[i],
                         <<PyGet(tf, doc_words[i], 0)[1] * PyGet(idf, doc_words[i], 0),
                           PyGet(tf, doc_words[i], 0)[2]>>)
              ELSE tfidf,
              LAMBDA tfidf1 : Cli_tfidf_loop(tfidf1, doc_words, tf, idf, i + 1))

Cli_calculate_tfidf(doc_words, tf, idf) == Cli_tfidf_loop(<<>>, doc_words, tf, idf, 1)

\* Mutant: the posting list receives the lower-cased title.
Cli_append_lowered(ix, term, doc_id) ==
    Then(IF PyHas(ix, term) THEN ix ELSE PySet(ix, term, CallFactory("list")),
         LAMBDA ix1 : PySet(ix1, term, Append(PyGet(ix1, term, <<>>), lower(doc_id))))

\* self.index[term].append(doc_id) on a defaultdict(list)
Cli_append(ix, term, doc_id) ==
    Then(IF PyHas(ix, term) THEN ix ELSE PySet(ix, term, CallFactory("list")),
         LAMBDA ix1 : PySet(ix1, term, Append(PyGet(ix1, term, <<>>), doc_id)))

RECURSIVE Cli_post_terms(_, _, _, _)
Cli_post_terms(ix, terms, doc_id, i) ==
    IF i > Len(terms) THEN ix
    ELSE Then(Cli_append(ix, terms[i], doc_id),
              LAMBDA ix1 : Cli_post_terms(ix1, terms, doc_id, i + 1))

\* The body of the second loop of update_index, for one document.
Cli_index_doc(ix, doc_id, doc_words, idf) ==
    Then(Cli_calculate_tf(doc_words),
         LAMBDA tf :
            Then(Cli_calculate_tfidf(doc_words, tf, idf),
                 LAMBDA tfidf :
                    Cli_post_terms(
                        ix, SetToSeq(ImportantTerms(tfidf, CliThresholdMicro)), doc_id, 1)))

RECURSIVE Cli_index_docs(_, _, _, _)
Cli_index_docs(ix, docs, idf, i) ==
    IF i > Len(docs) THEN ix
    ELSE Then(extract_nouns_and_entities(docs[i][2]),
              LAMBDA doc_words :
                 Then(Cli_index_doc(ix, docs[i][1], doc_words, idf),
                      LAMBDA ix1 : Cli_index_docs(ix1, docs, idf, i + 1)))

\* SearchEngine.update_index: the index afterwards (clear() leaves it empty).
Cli_update_index(docs, ix) ==
    Then(Cli_calculate_idf(DocWordList(docs)),
         LAMBDA idf : Cli_index_docs(<<>>, docs, idf, 1))

\* SearchEngine.add_document: the store and the index afterwards.
Cli_add_document(docs, ix, title, content) ==
    Then(PySet(docs, title, content),
         LAMBDA docs1 : [documents |-> docs1, index |-> Cli_update_index(docs1, ix)])

\* SearchEngine.load_documents over the files of the directory, in listing order.
RECURSIVE Cli_load_files(_, _, _)
Cli_load_files(docs, files, i) ==
    IF i > Len(files) THEN docs
    ELSE Cli_load_files(PySet(docs, files[i].title, files[i].content), files, i + 1)

Cli_load_documents(docs, ix, files) ==
    Then(Cli_load_files(docs, files, 1),
         LAMBDA docs1 :
            [documents |-> docs1,
             index |-> IF Len(files) > 0 THEN Cli_update_index(docs1, ix) ELSE ix])

Cli_search_by_title(docs, query) == TitleMatches(PyKeys(docs), query, 1)

\* noun_matching_docs &= set(self.index[token]) for the tokens that are indexed
RECURSIVE Cli_intersect_postings(_, _, _, _)
Cli_intersect_postings(ix, tokens, i, found) ==
    IF i > Len(tokens) THEN found
    ELSE Cli_intersect_postings(
            ix, tokens, i + 1,
            IF PyHas(ix, tokens[i]) THEN found \cap Range(PyGet(ix, tokens[i], <<>>))
            ELSE found)

\* expanded_noun_tokens.extend(expand_query_with_synonyms([noun])) for each noun
RECURSIVE Cli_expand_nouns(_, _, _)
Cli_expand_nouns(query_nouns, i, hash_seed) ==
    IF i > Len(query_nouns) THEN <<>>
    ELSE expand_query_with_synonyms(<<query_nouns[i]>>, hash_seed)
            \o Cli_expand_nouns(query_nouns, i + 1, hash_seed)

\* all(token.lower() in content for token in tokens)
ContainsAll(content, tokens) ==
    \A i \in 1..Len(tokens) : IsSubstring(lower(tokens[i]), content)

\* noun_matching_docs of search_by_content
Cli_noun_matching_docs(ix, expanded_noun_tokens) ==
    IF expanded_noun_tokens = <<>> THEN {}
    ELSE Cli_intersect_postings(ix, expanded_noun_tokens, 2,
                                Range(PyGet(ix, expanded_noun_tokens[1], <<>>)))

\* [word for word, pos in query_pos_tags if pos not in ('NN', 'NNS', 'NNP', 'NNPS')]
NonNounTokens(query_pos_tags) ==
    SelectWords(query_pos_tags,
                {query_pos_tags[i][2] : i \in 1..Len(query_pos_tags)} \ NounTags, 1)

\* The return statements of the semantic search.
Cli_filter(docs, ix, query_tokens, non_noun_tokens, noun_matching_docs) ==
    IF noun_matching_docs # {}
    THEN IF non_noun_tokens = <<>>
         THEN Searched(ix, noun_matching_docs, "index", noun_matching_docs)
         ELSE Searched(ix,
                       {doc_id \in noun_matching_docs :
                           ContainsAll(lower(PyGet(docs, doc_id, <<>>)), non_noun_tokens)},
                       "index", noun_matching_docs)
    ELSE Searched(ix,
                  {docs[i][1] : i \in {j \in 1..Len(docs) :
                                           ContainsAll(lower(docs[j][2]), query_tokens)}},
                  "substring", noun_matching_docs)

Cli_semantic_search(docs, ix, query_tokens, query_pos_tags, hash_seed) ==
    Cli_filter(docs, ix, query_tokens, NonNounTokens(query_pos_tags),
               Cli_noun_matching_docs(
                   ix, Cli_expand_nouns(SelectWords(query_pos_tags, NounTags, 1), 1,
                                        hash_seed)))

\* SearchEngine.search_by_content
Cli_search_by_content(docs, ix, query, hash_seed) ==
    Then(PhraseMatches(docs, query),
         LAMBDA matching_docs :
            IF matching_docs # {} THEN Searched(ix, matching_docs, "phrase", {})
            ELSE Then(word_tokenize(lower(query)),
                      LAMBDA query_tokens :
                         Cli_semantic_search(docs, ix, query_tokens, pos_tag(query_tokens),
                                             hash_seed)))

----------------------------------------------------------------------------
(* The two programs driven by their handlers *)

\* " ".join(words)
RECURSIVE Join(_, _)
Join(words, i) ==
    IF i > Len(words) THEN <<>>
    ELSE (IF i > 1 THEN <<" ">> ELSE <<>>) \o words[i] \o Join(words, i + 1)

\* str.strip() on blanks
RECURSIVE strip(_)
strip(s) ==
    IF s = <<>> THEN s
    ELSE IF Head(s) = " " THEN strip(Tail(s))
    ELSE IF s[Len(s)] = " " THEN strip(SubSeq(s, 1, Len(s) - 1))
    ELSE s

NumFiles == 4
MaxUpload == 2

Title(n) == <<"D","o","c",n>>
Text1 == Join(<< <<"T","h","e">>, W_cat, W_sat, W_on, W_the, W_mat >>, 1)
Text2 == Join(<< <<"T","h","e">>, W_dog, W_sat, W_on, W_the, W_rug >>, 1)
Text3 == Join(<< W_cats, W_sat >>, 1) \o <<" ">>
Text4 == Join(<< W_dog, W_mat, W_mat >>, 1)

File(title, content, decodable) ==
    [title |-> title, content |-> content, decodable |-> decodable]

\* The files a user may upload or type in; one is not valid UTF-8.
FilePool ==
    << File(Title("1"), Text1, TRUE),
       File(Title("2"), Text2, TRUE),
       File(Title("3"), Text3, TRUE),
       File(Title("2"), <<>>, FALSE),
       File(Title("1"), Text4, TRUE),
       File(Title("4"), Text1, TRUE) >>
Files == {FilePool[i] : i \in 1..NumFiles}
DecodableFiles == {f \in Files : f.decodable}
Uploads == UNION {[1..n -> Files] : n \in 1..MaxUpload}

Q_phrase == Join(<< W_sat, W_on, W_the, W_mat >>, 1)
Q_dog_rug == Join(<< W_dog, W_rug >>, 1)
Q_dog_cat == Join(<< W_dog, W_cat >>, 1)
Queries == {<<>>, Q_phrase, W_feline, Q_dog_rug, Q_dog_cat}
TitleQueries == {<<"d","o","c">>, <<"2">>}

\* What the handler that ran last did.  For "add", result tells whether a
\* title that was already stored has been added again.
EOp(op, query, result, pre_index, raised, updated) ==
    [op |-> op, query |-> query, result |-> result, pre_index |-> pre_index,
     raised |-> raised, updated |-> updated, phase |-> "none", candidates |-> {}]

\* A content search r (see Searched) on the index pre_index.
EContent(query, r, pre_index, raised) ==
    [EOp("search_by_content", query, r.docs, pre_index, raised, FALSE)
        EXCEPT !.phase = r.phase, !.candidates = r.candidates]

\* Some file carries a title that is already stored.
Replaces(titles, files) == \E i \in 1..Len(files) : files[i].title \in Range(titles)

\* SearchEngine.__init__: Indexing_App.py starts empty; indexing.py loads the
\* documents directory.
Init ==
    /\ dict = <<>> /\ ref = <<>> /\ probed = FALSE /\ last = <<>>
    /\ variant \in {"app", "cli"}
    /\ IF variant = "app"
       THEN /\ documents = CustomDictionary(DefaultCapacity)
            /\ index = CustomDefaultDict("list", DefaultCapacity)
            /\ elast = EOp("init", <<>>, <<>>, <<>>, FALSE, FALSE)
       ELSE \E files \in {<<>>} \cup {<<f>> : f \in DecodableFiles} :
               \E r \in {Cli_load_documents(
                           <<>>, <<>>,
                           [i \in 1..Len(files) |->
                               File(files[i].title, strip(files[i].content), TRUE)])} :
                  /\ documents = r.documents
                  /\ index = r.index
                  /\ elast = EOp("init", <<>>, <<>>, <<>>, FALSE, Len(files) > 0)

\* The upload loop of the Add Document handler: decoding an invalid file
\* raises, which ends the handler.
RECURSIVE App_add_files(_, _, _)
App_add_files(docs, uploaded_files, i) ==
    IF i > Len(uploaded_files) THEN [documents |-> docs, raised |-> FALSE]
    ELSE IF ~uploaded_files[i].decodable THEN [documents |-> docs, raised |-> TRUE]
    ELSE App_add_files(
            App_add_document(docs, uploaded_files[i].title, strip(uploaded_files[i].content)),
            uploaded_files, i + 1)

\* Indexing_App.py, "Add Document": add every uploaded file, then update_index.
App_AddDocuments ==
    /\ variant = "app"
    /\ \E uploaded_files \in Uploads :
          \E r \in {App_add_files(documents, uploaded_files, 1)} :
             /\ documents' = r.documents
             /\ index' = IF r.raised THEN index ELSE App_update_index(r.documents, index)
             /\ elast' = EOp("add", <<>>, Replaces(keys(documents), uploaded_files),
                             <<>>, r.raised, ~r.raised)
    /\ UNCHANGED <<variant, dvars>>

\* Indexing_App.py, "Search by Title"
App_SearchByTitle ==
    /\ variant = "app"
    /\ \E query \in TitleQueries :
          elast' = EOp("search_by_title", query, App_search_by_title(documents, query),
                       index, FALSE, FALSE)
    /\ UNCHANGED <<variant, documents, index, dvars>>

\* Indexing_App.py, "Search by Content": the search, then documents[result]
\* for every result.
App_SearchByContent ==
    /\ variant = "app"
    /\ \E query \in Queries, hash_seed \in HashSeeds :
          \E r \in {App_search_by_content(documents, index, query, hash_seed)} :
             /\ index' = r.ix
             /\ elast' = EContent(query, r, index,
                                  \E doc_id \in r.docs :
                                     __getitem__(documents, doc_id).raised)
    /\ UNCHANGED <<variant, documents, dvars>>

\* indexing.py, choice 1: a title and a content, both non-empty.
Cli_AddDocument ==
    /\ variant = "cli"
    /\ \E f \in DecodableFiles :
          /\ f.title # <<>> /\ f.content # <<>>
          /\ \E r \in {Cli_add_document(documents, index, f.title, f.content)} :
                /\ documents' = r.documents
                /\ index' = r.index
                /\ elast' = EOp("add", <<>>, Replaces(PyKeys(documents), <<f>>),
                                <<>>, FALSE, TRUE)
    /\ UNCHANGED <<variant, dvars>>

\* indexing.py, choice 3
Cli_SearchByTitle ==
    /\ variant = "cli"
    /\ \E query \in TitleQueries :
          elast' = EOp("search_by_title", query, Cli_search_by_title(documents, query),
                       index, FALSE, FALSE)
    /\ UNCHANGED <<variant, documents, index, dvars>>

\* indexing.py, choice 4
Cli_SearchByContent ==
    /\ variant = "cli"
    /\ \E query \in Queries, hash_seed \in HashSeeds :
          \E r \in {Cli_search_by_content(documents, index, query, hash_seed)} :
             elast' = EContent(query, r, index, FALSE)
    /\ UNCHANGED <<variant, documents, index, dvars>>

Next ==
    \/ App_AddDocuments \/ App_SearchByTitle \/ App_SearchByContent
    \/ Cli_AddDocument \/ Cli_SearchByTitle \/ Cli_SearchByContent

Spec == Init /\ [][Next]_vars

----------------------------------------------------------------------------
(* The text functions applied to bounded inputs *)

MaxContentWords == 3
MaxQueryWords == 2
MaxDocWords == 3
W_Cat == <<"C","a","t">>
TextWords == {W_cat, W_mat, W_Cat}
DocWords == {W_cat, W_mat}
WordLists(words, n) == UNION {[1..k -> words] : k \in 0..n}

\* What the function applied last was given and what it returned.
TOp(op, content, query, doc_words, result) ==
    [op |-> op, content |-> content, query |-> query, doc_words |-> doc_words,
     result |-> result]

\* The inputs: a content and a query, or the token list of a document.
TextInit ==
    /\ \/ \E content_words \in WordLists(TextWords, MaxContentWords),
             query_words \in WordLists(TextWords, MaxQueryWords) :
              last = TOp("input", Join(content_words, 1), Join(query_words, 1), <<>>, <<>>)
       \/ \E doc_words \in WordLists(DocWords, MaxDocWords) :
              last = TOp("input", <<>>, <<>>, doc_words, <<>>)
    /\ variant = "text"
    /\ dict = <<>> /\ ref = <<>> /\ probed = FALSE
    /\ documents = <<>> /\ index = <<>> /\ elast = <<>>

\* phrase_match(content, query)
PhraseMatch ==
    /\ last.op = "input"
    /\ last' = TOp("phrase_match", last.content, last.query, last.doc_words,
                   phrase_match(last.content, last.query))
    /\ UNCHANGED <<dict, ref, probed, variant, documents, index, elast>>

\* calculate_tf(doc_words) of Indexing_App.py
App_CalculateTf ==
    /\ last.op = "input"
    /\ last' = TOp("App_calculate_tf", last.content, last.query, last.doc_words,
                   items(App_calculate_tf(last.doc_words)))
    /\ UNCHANGED <<dict, ref, probed, variant, documents, index, elast>>

\* calculate_tf(doc_words) of indexing.py
Cli_CalculateTf ==
    /\ last.op = "input"
    /\ last' = TOp("Cli_calculate_tf", last.content, last.query, last.doc_words,
                   Cli_calculate_tf(last.doc_words))
    /\ UNCHANGED <<dict, ref, probed, variant, documents, index, elast>>

TextNext == PhraseMatch \/ App_CalculateTf \/ Cli_CalculateTf

SpecText == TextInit /\ [][TextNext]_vars

----------------------------------------------------------------------------
(* update_index taken statement by statement.  Both programs run one       *)
(* handler at a time: the menu loop of indexing.py and the script of       *)
(* Indexing_App.py start a handler only when the one before has returned.  *)

\* Where the program is: at the menu, or inside update_index with the items
\* of the store, the idf table and the next document to post.
Position(pc, docs, idf, i) == [pc |-> pc, docs |-> docs, idf |-> idf, i |-> i]

\* Mutant: a handler is dispatched at any position of the running one.
AnyTime == TRUE

\* The program waits for the next choice of the user.
AtMenu == last.pc = "menu"

StepsInit ==
    /\ dict = <<>> /\ ref = <<>> /\ probed = FALSE
    /\ last = Position("menu", <<>>, <<>>, 0)
    /\ variant \in {"app", "cli"}
    /\ documents = IF variant = "app" THEN CustomDictionary(DefaultCapacity) ELSE <<>>
    /\ index = IF variant = "app" THEN CustomDefaultDict("list", DefaultCapacity) ELSE <<>>
    /\ elast = EOp("init", <<>>, <<>>, <<>>, FALSE, FALSE)

\* add_document up to the call of update_index
Steps_Add ==
    /\ AtMenu
    /\ \E f \in DecodableFiles :
          /\ documents' = IF variant = "app"
                          THEN App_add_document(documents, f.title, strip(f.content))
                          ELSE PySet(documents, f.title, f.content)
          /\ elast' = EOp("add", <<>>, FALSE, <<>>, FALSE, FALSE)
    /\ last' = Position("update_index", <<>>, <<>>, 0)
    /\ UNCHANGED <<variant, index, dvars_but_last>>

\* update_index: the first loop, calculate_idf and self.index.clear()
Steps_Clear ==
    /\ last.pc = "update_index"
    /\ \E docs \in {IF variant = "app" THEN items(documents) ELSE documents} :
          last' = Position("post", docs,
                           IF variant = "app" THEN App_calculate_idf(DocWordList(docs))
                           ELSE Cli_calculate_idf(DocWordList(docs)),
                           1)
    /\ index' = IF variant = "app" THEN clear(index) ELSE <<>>
    /\ UNCHANGED <<variant, documents, elast, dvars_but_last>>

\* update_index: one round of the second loop
Steps_Post ==
    /\ last.pc = "post"
    /\ index' = IF variant = "app"
                THEN App_index_doc(index, last.docs[last.i][1],
                                   extract_nouns_and_entities(last.docs[last.i][2]), last.idf)
                ELSE Cli_index_doc(index, last.docs[last.i][1],
                                   extract_nouns_and_entities(last.docs[last.i][2]), last.idf)
    /\ last' = IF last.i < Len(last.docs)
               THEN [last EXCEPT !.i = last.i + 1]
               ELSE Position("menu", <<>>, <<>>, 0)
    /\ elast' = [elast EXCEPT !.updated = last.i = Len(last.docs)]
    /\ UNCHANGED <<variant, documents, dvars_but_last>>

\* search_by_content
Steps_Search ==
    /\ AtMenu
    /\ \E query \in Queries, hash_seed \in HashSeeds :
          \E r \in {IF variant = "app"
                    THEN App_search_by_content(documents, index, query, hash_seed)
                    ELSE Cli_search_by_content(documents, index, query, hash_seed)} :
             /\ index' = r.ix
             /\ elast' = EContent(query, r, index, FALSE)
    /\ UNCHANGED <<variant, documents, last, dvars_but_last>>

StepsNext == Steps_Add \/ Steps_Clear \/ Steps_Post \/ Steps_Search

SpecSteps == StepsInit /\ [][StepsNext]_vars

----------------------------------------------------------------------------
(* Properties of the container *)

Present(d, key) == ~__getitem__(d, key).raised
Lookup(d, key) == __getitem__(d, key).value
HasFactory(d) == d.cls = "CustomDefaultDict" /\ d.default_factory # "None"
LoadBelowThreshold(d) == d.size * LoadFactorDen < LoadFactorNum * d.capacity
\* The last operation met a key that was absent / present when it began.
OnAbsent == last.key \in Keys /\ ~Present(last.pre, last.key)
OnPresent == last.key \in Keys /\ Present(last.pre, last.key)

\* C1: under set and delete (and through every resize they trigger), strict
\* get(k) returns the value of the latest set(k, v) not followed by delete(k)
\* and raises KeyError for a key never set or last deleted: the observable
\* mapping is that of the reference map driven by the same operations.
C1_RefinesReferenceMap ==
    ~probed =>
        \A k \in Keys :
            IF k \in DOMAIN ref
            THEN Present(dict, k) /\ Lookup(dict, k) = ref[k]
            ELSE __getitem__(dict, k).raised

C1_Witness ==
    /\ ~probed
    /\ last.op = "delitem" /\ ~last.raised
    /\ dict.capacity >= 8
    /\ Cardinality(DOMAIN ref) = 2

\* C2: when a set call returns (after any sequence of set, delete, clear and
\* default-on-miss get), size / capacity < 0.75.
C2_LoadFactorAfterSet ==
    (last.op = "set" \/ last.calls > 0) => LoadBelowThreshold(dict)

C2_Witness ==
    /\ last.op = "set"
    /\ last.pre.size = 0 /\ last.pre.capacity = 1
    /\ dict.capacity = 2 /\ dict.size = 1

\* C3: a set call inserting a new key doubles the capacity exactly when the
\* new size / capacity >= 0.75 and leaves it unchanged otherwise (the
\* reinsertion of a resize never resizes again), and every key keeps its value.
C3_ResizeExactlyDoubles ==
    (last.op = "set" /\ OnAbsent) =>
        /\ dict.size = last.pre.size + 1
        /\ IF (last.pre.size + 1) * LoadFactorDen >= LoadFactorNum * last.pre.capacity
           THEN dict.capacity = 2 * last.pre.capacity
           ELSE dict.capacity = last.pre.capacity
        /\ \A k \in Keys :
              Present(last.pre, k) =>
                  Present(dict, k) /\ Lookup(dict, k) = Lookup(last.pre, k)
        /\ Lookup(dict, last.key) = last.value

C3_Witness ==
    /\ last.op = "set" /\ OnAbsent
    /\ last.pre.capacity = 4 /\ last.pre.size = 2
    /\ dict.capacity = 8 /\ dict.size = 3
    /\ \A k \in {KeyPool[1], KeyPool[2], KeyPool[3]} : Present(dict, k)

\* C4: set(k, v) on a key already present replaces only k's value: size,
\* capacity, the position of k in its bucket and every other entry are
\* unchanged, and nothing is resized.
C4_OverwriteInPlace ==
    (last.op = "set" /\ OnPresent) =>
        /\ dict.size = last.pre.size
        /\ dict.capacity = last.pre.capacity
        /\ \A b \in 0..(dict.capacity - 1) :
              /\ Len(Bucket(dict, b)) = Len(Bucket(last.pre, b))
              /\ \A j \in 1..Len(Bucket(dict, b)) :
                    IF Bucket(last.pre, b)[j][1] = last.key
                    THEN Bucket(dict, b)[j] = <<last.key, last.value>>
                    ELSE Bucket(dict, b)[j] = Bucket(last.pre, b)[j]

C4_Witness ==
    /\ last.op = "set" /\ OnPresent
    /\ Lookup(last.pre, last.key) # last.value
    /\ LET b == _hash(last.key, dict.capacity)
       IN /\ Len(Bucket(dict, b)) >= 2
          /\ Bucket(dict, b)[1] = <<last.key, last.value>>

\* C5: on a base CustomDictionary, strict get and delete of an absent key
\* raise KeyError and change nothing; delete of a present key removes exactly
\* that entry and decrements size; get(key, default) never raises and returns
\* the default for an absent key.
C5_BaseErrorsAndDelete ==
    dict.cls = "CustomDictionary" =>
        /\ (last.op \in {"getitem", "delitem"} /\ OnAbsent) =>
              last.raised /\ dict = last.pre
        /\ (last.op = "delitem" /\ OnPresent) =>
              /\ ~last.raised
              /\ dict.size = last.pre.size - 1
              /\ dict.capacity = last.pre.capacity
              /\ ~Present(dict, last.key)
              /\ Len(items(dict)) = Len(items(last.pre)) - 1
              /\ \A k \in Keys \ {last.key} :
                    Present(last.pre, k) =>
                        Present(dict, k) /\ Lookup(dict, k) = Lookup(last.pre, k)
        /\ last.op = "get" =>
              /\ ~last.raised
              /\ dict = last.pre
              /\ OnAbsent => last.result = Default
              /\ OnPresent => last.result = Lookup(last.pre, last.key)

C5_Witness ==
    /\ dict.cls = "CustomDictionary"
    /\ last.op = "delitem" /\ OnPresent
    /\ dict.size = 1
    /\ \E k \in Keys \ {last.key} :
          Present(dict, k) /\ _hash(k, dict.capacity) = _hash(last.key, dict.capacity)

\* C6: on a CustomDefaultDict, strict get of an absent key calls the factory
\* once, stores the value under the key (size + 1, possibly resizing) and
\* returns the stored value, which a following get returns again; without a
\* factory it raises KeyError and changes nothing.
C6_DefaultOnMiss ==
    (dict.cls = "CustomDefaultDict" /\ last.op = "getitem" /\ OnAbsent) =>
        IF last.pre.default_factory # "None"
        THEN /\ ~last.raised
             /\ last.calls = 1
             /\ last.result = CallFactory(last.pre.default_factory)
             /\ dict.size = last.pre.size + 1
             /\ Present(dict, last.key) /\ Lookup(dict, last.key) = last.result
             /\ LET again == Subscript(dict, last.key)
                IN ~again.raised /\ again.value = last.result
                   /\ again.calls = 0 /\ again.d = dict
             /\ \A k \in Keys \ {last.key} :
                   Present(last.pre, k) =>
                       Present(dict, k) /\ Lookup(dict, k) = Lookup(last.pre, k)
        ELSE last.raised /\ last.calls = 0 /\ dict = last.pre

C6_Witness ==
    /\ HasFactory(dict) /\ last.op = "getitem" /\ OnAbsent
    /\ last.calls = 1
    /\ dict.capacity = 2 * last.pre.capacity
    /\ dict.size = 3

C6_WitnessNoFactory ==
    /\ dict.cls = "CustomDefaultDict" /\ dict.default_factory = "None"
    /\ last.op = "getitem" /\ OnAbsent /\ last.raised /\ dict.size = 2

\* C7: on a CustomDefaultDict with a factory, operations other than strict get
\* behave as on the base container: for an absent key, contains(key) is False
\* and get(key, default) returns the default, and neither changes the entries,
\* the size or the capacity.
C7_LenientLookupsPure ==
    (HasFactory(last.pre) /\ last.op \in {"get", "contains"} /\ OnAbsent) =>
        /\ dict = last.pre
        /\ last.calls = 0
        /\ last.op = "contains" => last.result = FALSE
        /\ last.op = "get" => last.result = Default

----------------------------------------------------------------------------
(* Properties of the search engine *)

\* The document store as (title, content) pairs, and the posting list of a term.
StoreDocs == IF variant = "app" THEN items(documents) ELSE documents
Postings(term) ==
    IF variant = "app"
    THEN (IF Present(index, term) THEN Lookup(index, term) ELSE <<>>)
    ELSE PyGet(index, term, <<>>)
IndexKeys == IF variant = "app" THEN Range(keys(index)) ELSE Range(PyKeys(index))
Threshold == IF variant = "app" THEN AppThresholdMicro ELSE CliThresholdMicro

\* The noun tokens of a document, the number of documents a term occurs in.
NounsOf(content) == extract_nouns_and_entities(content)
Occurrences(content, term) ==
    Cardinality({i \in 1..Len(NounsOf(content)) : NounsOf(content)[i] = term})
DocFrequency(term) ==
    Cardinality({i \in 1..Len(StoreDocs) : term \in Range(NounsOf(StoreDocs[i][2]))})
CorpusTerms ==
    IndexKeys \cup UNION {Range(NounsOf(StoreDocs[i][2])) : i \in 1..Len(StoreDocs)}

\* tf(d, t) * ln(N / (1 + df(t))) > threshold, in millionths and cleared of
\* the division by len(doc_words)
Significant(content, term) ==
    Occurrences(content, term)
        * (LnMicro[Len(StoreDocs)] - LnMicro[1 + DocFrequency(term)])
    > Threshold * Len(NounsOf(content))

\* update_index over the current store
Rebuilt ==
    IF variant = "app" THEN App_update_index(documents, index)
    ELSE Cli_update_index(documents, index)

\* update_index over the current store, had the index been new and empty
RebuiltOnEmpty ==
    IF variant = "app"
    THEN App_update_index(documents, CustomDefaultDict("list", DefaultCapacity))
    ELSE Cli_update_index(documents, <<>>)

\* C8: search_by_title and search_by_content never mutate the index: its keys,
\* posting lists, size and capacity are the same before and after the call.
C8_SearchLeavesIndex ==
    elast.op \in {"search_by_title", "search_by_content"} => index = elast.pre_index

\* C9: when a document has been added (new title or replaced one), the index
\* equals the result of update_index over the current document store.
C9_AddRebuildsIndex ==
    elast.op = "add" => index = Rebuilt

\* C10: after update_index completes, a document is in the posting list of a
\* term if and only if tf * idf of the term in that document exceeds the
\* threshold, with idf = ln(N / (1 + df)) over the noun lists of the whole store.
C10_PostingsAreSignificantTerms ==
    elast.updated =>
        \A i \in 1..Len(StoreDocs) : \A term \in CorpusTerms :
            (StoreDocs[i][1] \in Range(Postings(term)))
                <=> Significant(StoreDocs[i][2], term)

\* A rebuilt index over three documents in which one term is posted and another
\* term of the store is not.
C10_Witness ==
    /\ elast.updated
    /\ Len(StoreDocs) >= 3
    /\ \E term \in CorpusTerms : Postings(term) # <<>>
    /\ \E term \in CorpusTerms : Postings(term) = <<>>

\* C11: rebuilding is idempotent: update_index called again on an unchanged
\* store, whatever title and content queries ran in between, gives the index
\* of the first call, with the same terms and the same posting lists.
\* Stated on every state: update_index gives what it gives on a new, empty
\* index (so queries in between have no effect on it), and right after an
\* update_index a second call gives the index again.
C11_RebuildIdempotent ==
    /\ Rebuilt = RebuiltOnEmpty
    /\ elast.updated => Rebuilt = index

\* A content query has changed a populated index since the last rebuild.
C11_Witness ==
    /\ variant = "app"
    /\ elast.op = "search_by_content"
    /\ index # elast.pre_index
    /\ \E term \in CorpusTerms : Postings(term) # <<>>
    /\ Rebuilt # index

NoDuplicates(s) == \A i, j \in 1..Len(s) : s[i] = s[j] => i = j

\* C12: after a sequence of add_document and update_index calls that ends
\* with an update_index, no posting list holds a document id more than once.
C12_NoDuplicatePostings ==
    elast.updated => \A term \in CorpusTerms : NoDuplicates(Postings(term))

\* A title already stored has been added again, and the rebuilt index posts
\* some document.
C12_Witness ==
    /\ elast.updated
    /\ elast.op = "add" /\ elast.result = TRUE
    /\ \E term \in CorpusTerms : Postings(term) # <<>>

\* C13: for the corpus doc1 = "The cat sat on the mat", doc2 = "The dog sat
\* on the rug", after a rebuild the posting list of "cat" is exactly [doc1]
\* and the posting list of "dog" is exactly [doc2].
C13_CatDogScenario ==
    (/\ elast.updated
     /\ Range(StoreDocs) = {<<Title("1"), Text1>>, <<Title("2"), Text2>>})
        => /\ Postings(W_cat) = <<Title("1")>>
           /\ Postings(W_dog) = <<Title("2")>>

\* C14: a content query whose token list is empty returns an empty result
\* set and raises no error, whatever the document store contains.
C14_EmptyQueryFindsNothing ==
    (/\ elast.op = "search_by_content"
     /\ word_tokenize(lower(elast.query)) = <<>>)
        => elast.result = {} /\ ~elast.raised

\* The query tokens occur, in order and adjacent, in the content tokens.
ContiguousIn(content_tokens, query_tokens) ==
    \E start \in 0..Len(content_tokens) :
        /\ start + Len(query_tokens) <= Len(content_tokens)
        /\ \A k \in 1..Len(query_tokens) : content_tokens[start + k] = query_tokens[k]

\* The titles of the stored documents the query phrase-matches.
PhraseSet(query) ==
    {doc[1] : doc \in {d \in Range(StoreDocs) :
                          ContiguousIn(word_tokenize(lower(d[2])),
                                       word_tokenize(lower(query)))}}

\* C15: when at least one document phrase-matches the query, the content
\* search returns exactly the phrase-matching documents and leaves the index
\* as it was, without running the semantic search; the semantic search runs
\* only when no document phrase-matches.
C15_PhraseMatchTerminal ==
    elast.op = "search_by_content" =>
        IF PhraseSet(elast.query) # {}
        THEN /\ elast.phase = "phrase"
             /\ elast.result = PhraseSet(elast.query)
             /\ elast.candidates = {}
             /\ index = elast.pre_index
        ELSE elast.phase # "phrase"
C15_Witness ==
    /\ elast.op = "search_by_content"
    /\ elast.query = Q_phrase
    /\ Range(StoreDocs) = {<<Title("1"), Text1>>, <<Title("2"), Text2>>}
    /\ elast.phase = "phrase"
    /\ elast.result = {Title("1")}

\* The synonym group of a query noun: the noun and its synonyms.
SynonymGroup(noun) ==
    {noun} \cup Range(expand_query_with_synonyms(<<noun>>, "ascending"))

\* The documents posted under at least one member of the noun's group.
GroupPostings(noun) == UNION {Range(Postings(t)) : t \in SynonymGroup(noun)}

\* C16: in the semantic search with query nouns n1..nk (k >= 1) the
\* index-derived candidate set is the intersection over the nouns of the
\* union over the noun's synonym group of the posting lists; a noun whose
\* whole group has no postings makes the candidate set empty.
C16_CandidatesIntersectGroupUnions ==
    (/\ elast.op = "search_by_content"
     /\ elast.phase # "phrase"
     /\ QueryNouns(elast.query) # <<>>)
        => elast.candidates =
              {doc \in UNION {GroupPostings(n) : n \in Range(QueryNouns(elast.query))} :
                  \A n \in Range(QueryNouns(elast.query)) : doc \in GroupPostings(n)}

\* The titles of the stored documents whose lower-cased content contains
\* every token of the query as a substring.
SubstringSet(query) ==
    {doc[1] : doc \in {d \in Range(StoreDocs) :
                          \A token \in Range(word_tokenize(lower(query))) :
                              IsSubstring(token, lower(d[2]))}}

\* C17: when no document phrase-matches and either the query has no noun
\* tokens or the index-derived candidate set is empty, the content search
\* returns exactly the documents whose lower-cased content contains every
\* query token as a substring.
C17_SubstringFallback ==
    (/\ elast.op = "search_by_content"
     /\ elast.phase # "phrase"
     /\ (QueryNouns(elast.query) = <<>> \/ elast.candidates = {}))
        => elast.result = SubstringSet(elast.query)

\* The query occurs in the title when the case of letters is ignored.
ContainsIgnoringCase(title, query) ==
    \E offset \in 0..Len(title) :
        /\ offset + Len(query) <= Len(title)
        /\ \A k \in 1..Len(query) : LowerOf[title[offset + k]] = LowerOf[query[k]]

\* The position of a title in the iteration order of the store.
StorePosition(title) == CHOOSE i \in 1..Len(StoreDocs) : StoreDocs[i][1] = title

\* C19: a title search returns exactly the stored titles that contain the
\* query case-insensitively, each once, in the iteration order of the store,
\* and leaves the index as it was.
C19_TitleSearch ==
    elast.op = "search_by_title" =>
        /\ NoDuplicates(elast.result)
        /\ Range(elast.result) =
              {doc[1] : doc \in {d \in Range(StoreDocs) :
                                    ContainsIgnoringCase(d[1], elast.query)}}
        /\ \A i, j \in 1..Len(elast.result) :
              i < j => StorePosition(elast.result[i]) < StorePosition(elast.result[j])
        /\ index = elast.pre_index
C19_Witness ==
    /\ elast.op = "search_by_title"
    /\ Len(elast.result) >= 2
    /\ ~IsSubstring(elast.query, elast.result[1])

\* C18: phrase_match(content, query) is true exactly when the lower-cased
\* query tokens occur as a contiguous run of the lower-cased content tokens,
\* also for a query longer than the content and for empty token sequences.
C18_PhraseMatchIsContiguousRun ==
    last.op = "phrase_match" =>
        (last.result <=> ContiguousIn(word_tokenize(lower(last.content)),
                                      word_tokenize(lower(last.query))))
C18_Witness ==
    /\ last.op = "phrase_match"
    /\ last.result = TRUE
    /\ last.query # lower(last.query)
    /\ Len(word_tokenize(last.query)) = 2
    /\ Len(word_tokenize(last.content)) = 3
    /\ SubSeq(word_tokenize(lower(last.content)), 1, 2) # word_tokenize(lower(last.query))

\* The number of occurrences of a word in a token list, the sum of the
\* counts of a term-frequency table, and the sum of its frequencies as a
\* fraction (the frequencies of one table share the denominator).
TimesIn(doc_words, word) ==
    Cardinality({i \in 1..Len(doc_words) : doc_words[i] = word})
RECURSIVE SumCounts(_, _)
SumCounts(tf, i) == IF i > Len(tf) THEN 0 ELSE tf[i][2][1] + SumCounts(tf, i + 1)
TfSum(tf) == IF tf = <<>> THEN <<0, 1>> ELSE <<SumCounts(tf, 1), tf[1][2][2]>>
IsOne(fraction) == fraction[2] # 0 /\ fraction[1] = fraction[2]
TfApplied == last.op \in {"App_calculate_tf", "Cli_calculate_tf"}
TfWellFormed ==
    /\ \A i, j \in 1..Len(last.result) :
          last.result[i][1] = last.result[j][1] => i = j
    /\ {last.result[i][1] : i \in 1..Len(last.result)} = Range(last.doc_words)
    /\ \A i \in 1..Len(last.result) :
          last.result[i][2] = <<TimesIn(last.doc_words, last.result[i][1]),
                                Len(last.doc_words)>>
    /\ SumCounts(last.result, 1) = Len(last.doc_words)

\* C20 as stated: for any token list, the empty list included, the term
\* frequencies returned by calculate_tf sum to 1, each distinct term getting
\* count(term)/len(tokens) and the counts summing to len(tokens).
C20_TfSumsToOne ==
    TfApplied => TfWellFormed /\ IsOne(TfSum(last.result))

\* C20: for a non-empty token list the term frequencies returned by
\* calculate_tf sum to 1, each distinct term getting count(term)/len(tokens)
\* and the counts summing to len(tokens); for the empty list the table is
\* empty and the sum is 0.
C20_TfSumsToOneUnlessEmpty ==
    TfApplied =>
        /\ TfWellFormed
        /\ IF last.doc_words = <<>>
           THEN last.result = <<>> /\ TfSum(last.result)[1] = 0
           ELSE IsOne(TfSum(last.result))
C20_Witness ==
    /\ last.op = "App_calculate_tf"
    /\ Len(last.doc_words) = 3
    /\ Len(last.result) = 2
    /\ IsOne(TfSum(last.result))

\* C23: in every state reached by set, delete, clear, resize and
\* default-on-miss get, every stored entry lies in the bucket whose index is
\* _hash(key) under the current capacity, an index in 0..capacity-1; no entry
\* stays under an index computed with an earlier capacity.
C23_EntriesInHashBucket ==
    \A bucket_index \in DOMAIN dict.buckets :
        /\ bucket_index \in 0..(dict.capacity - 1)
        /\ \A i \in 1..Len(dict.buckets[bucket_index]) :
              _hash(dict.buckets[bucket_index][i][1], dict.capacity) = bucket_index
C23_Witness ==
    /\ last.op \in {"set", "getitem", "get", "contains"}
    /\ dict.capacity = last.pre.capacity * GrowthFactor
    /\ \E bucket_index \in DOMAIN last.pre.buckets :
          \E i \in 1..Len(last.pre.buckets[bucket_index]) :
              _hash(last.pre.buckets[bucket_index][i][1], dict.capacity) # bucket_index

\* The number of entries stored across the buckets.
RECURSIVE EntriesIn(_, _)
EntriesIn(buckets, S) ==
    IF S = {} THEN 0
    ELSE Len(buckets[First(S)]) + EntriesIn(buckets, S \ {First(S)})

\* C24: in every state reached by set, delete, clear, resize and
\* default-on-miss get, size is the number of entries stored across the
\* buckets and no key occurs in more than one entry, so len(), keys() and
\* items() agree on the number of distinct keys.
C24_SizeCountsDistinctKeys ==
    /\ dict.size = EntriesIn(dict.buckets, DOMAIN dict.buckets)
    /\ \A b1, b2 \in DOMAIN dict.buckets :
          \A i \in 1..Len(dict.buckets[b1]), j \in 1..Len(dict.buckets[b2]) :
              dict.buckets[b1][i][1] = dict.buckets[b2][j][1] => b1 = b2 /\ i = j
    /\ len(dict) = Len(keys(dict))
    /\ len(dict) = Len(items(dict))
    /\ len(dict) = Cardinality(Range(keys(dict)))
C24_Witness ==
    /\ last.op = "delitem" /\ ~last.raised
    /\ last.pre.size = 3 /\ dict.size = 2
    /\ dict.capacity > MaxInitialCapacity
    /\ \E bucket_index \in DOMAIN dict.buckets : Len(dict.buckets[bucket_index]) = 2

\* C25: with a positive threshold, update_index posts a document under a
\* term only if N > 1 + df(term), N being the number of documents and df the
\* number of documents containing the term: a term occurring in N or N - 1
\* documents is never indexed, and a store of one or two documents has no
\* postings after the rebuild.
C25_PostedOnlyWhenRare ==
    elast.updated =>
        /\ Threshold > 0
        /\ \A term \in CorpusTerms :
              Postings(term) # <<>> => Len(StoreDocs) > 1 + DocFrequency(term)
        /\ Len(StoreDocs) <= 2 => \A term \in CorpusTerms : Postings(term) = <<>>
C25_Witness ==
    /\ elast.updated
    /\ Len(StoreDocs) = 3
    /\ \E term \in CorpusTerms :
          DocFrequency(term) = Len(StoreDocs) - 1 /\ Postings(term) = <<>>
    /\ \E term \in CorpusTerms : Postings(term) # <<>>

\* The titles of the document store.
StoreTitles == {StoreDocs[i][1] : i \in 1..Len(StoreDocs)}

\* C26: in every state reached by load, add_document, update_index and the
\* searches, every document id in a posting list of the index is a title of
\* the document store, so looking a search result up in the store never fails.
C26_PostedDocumentsAreStored ==
    /\ \A term \in IndexKeys : Range(Postings(term)) \subseteq StoreTitles
    /\ elast.op = "search_by_content" =>
          /\ elast.result \subseteq StoreTitles
          /\ variant = "app" => \A title \in elast.result : Present(documents, title)
C26_Witness ==
    /\ variant = "app"
    /\ index # Rebuilt
    /\ elast.op = "search_by_content"
    /\ elast.phase = "index"
    /\ elast.result # {}
    /\ \E title \in StoreTitles : \A term \in IndexKeys : title \notin Range(Postings(term))

\* The strict lookups tf[word] and idf[word] of calculate_tfidf, taken when
\* word is in idf, for one document and for every document of the store.
AppScoreLookupsServed(doc_words, tf, idf) ==
    \A i \in 1..Len(doc_words) :
        __contains__(idf, doc_words[i]).value
            => Present(tf, doc_words[i]) /\ Present(idf, doc_words[i])
AppStoreLookupsServed(idf) ==
    \A i \in 1..Len(StoreDocs) :
        AppScoreLookupsServed(NounsOf(StoreDocs[i][2]),
                              App_calculate_tf(NounsOf(StoreDocs[i][2])), idf)
CliScoreLookupsServed(doc_words, tf, idf) ==
    \A i \in 1..Len(doc_words) :
        PyHas(idf, doc_words[i]) => PyHas(tf, doc_words[i])
CliStoreLookupsServed(idf) ==
    \A i \in 1..Len(StoreDocs) :
        CliScoreLookupsServed(NounsOf(StoreDocs[i][2]),
                              Cli_calculate_tf(NounsOf(StoreDocs[i][2])), idf)

\* C21: KeyError never leaves the public operations: whatever the store and
\* the calls made, every strict lookup inside calculate_tf, calculate_idf,
\* calculate_tfidf, update_index and the searches is on a key that is present
\* or is served by a default factory (word_doc_counts[word], tf[word],
\* idf[word], index[term], index[token] and documents[doc_id]).
C21_StrictLookupsServed ==
    /\ variant = "app" =>
          /\ HasFactory(CustomDefaultDict("int", DefaultCapacity))
          /\ AppStoreLookupsServed(App_calculate_idf(DocWordList(StoreDocs)))
          /\ HasFactory(index)
          /\ elast.op = "search_by_content" =>
                \A title \in elast.result : Present(documents, title)
    /\ variant = "cli" =>
          /\ CliStoreLookupsServed(Cli_calculate_idf(DocWordList(StoreDocs)))
          /\ elast.op = "search_by_content" =>
                \A doc_id \in elast.candidates : PyHas(documents, doc_id)
C21_Witness ==
    /\ variant = "app"
    /\ elast.op = "search_by_content"
    /\ elast.phase = "index"
    /\ elast.result # {}
    /\ Len(StoreDocs) >= 3
    /\ \A i \in 1..Len(StoreDocs) : NounsOf(StoreDocs[i][2]) # <<>>
    /\ \E term \in IndexKeys : Len(Postings(term)) = 1

\* The terms and the posting lists of an index.
TermsOf(ix) == IF variant = "app" THEN Range(keys(ix)) ELSE Range(PyKeys(ix))
PostingsOf(ix, term) ==
    IF variant = "app"
    THEN (IF Present(ix, term) THEN Lookup(ix, term) ELSE <<>>)
    ELSE PyGet(ix, term, <<>>)
SamePostings(ix1, ix2) ==
    \A term \in TermsOf(ix1) \cup TermsOf(ix2) :
        PostingsOf(ix1, term) = PostingsOf(ix2, term)

====
